---- MODULE Spec2Model ----
(***************************************************************************)
(* A model of the lexy glossary service: the GlossaryManager term store    *)
(* (glossary.py) and the three searches built on it (search.py).           *)
(*                                                                         *)
(* Strings are sequences of one-character strings, so that str.lower() is  *)
(* a computed conversion.  A confidence is the exact quotient num/den.     *)
(***************************************************************************)
EXTENDS Integers, Sequences, FiniteSets, TLC

VARIABLES
    glossary,              \* GlossaryManager.glossary: the parsed corpus
    normalized_terms,      \* GlossaryManager.normalized_terms: lowercase -> term
    all_searchable_terms,  \* GlossaryManager.all_searchable_terms
    agent,                 \* AgenticSearch.agent is not None
    res,                   \* the response of the call in progress (NoRes when idle)
    lpc, li, src,          \* position of a statement-by-statement load_glossary
    pre,                   \* the store as that load_glossary call found it
    rpc, seen              \* a search reading the store field by field

vars == << glossary, normalized_terms, all_searchable_terms, agent, res,
           lpc, li, src, pre, rpc, seen >>

storeVars == << glossary, normalized_terms, all_searchable_terms >>
concVars  == << lpc, li, src, pre, rpc, seen >>

----------------------------------------------------------------------------
(* Bounds of the model *)

MaxTerms == 2       \* terms in a generated corpus
MaxAgentOut == 1    \* names in a capability output

(* Program constants *)

FuzzyLimit == 10            \* process.extract(limit=10)
SuggestionThreshold == 60   \* ExactSearch.lookup: threshold=60
SuggestionCount == 3        \* ExactSearch.lookup: [:3]
FallbackThreshold == 60     \* AgenticSearch.search: threshold=60
FallbackCount == 3          \* AgenticSearch.search: [:3]
DefaultThreshold == 80      \* FuzzySearch.search(threshold=80)

----------------------------------------------------------------------------
(* Strings *)

LowerChar(c) ==
    CASE c = "A" -> "a"
      [] c = "B" -> "b"
      [] c = "C" -> "c"
      [] c = "D" -> "d"
      [] c = "E" -> "e"
      [] c = "F" -> "f"
      [] c = "G" -> "g"
      [] OTHER -> c

RECURSIVE Lower(_)
Lower(s) ==
    IF s = << >> THEN << >>
    ELSE << LowerChar(Head(s)) >> \o Lower(Tail(s))

Names == { <<"A", "B">>, <<"a", "b">>, <<"C">> }

\* what callers ask for: the names in any casing
Queries == Names \cup { <<"A", "b">> }

Range(s) == { s[i] : i \in 1..Len(s) }

Take(s, n) == SubSeq(s, 1, IF Len(s) < n THEN Len(s) ELSE n)

----------------------------------------------------------------------------
(* The corpus source: what yaml.safe_load finds at glossary_path *)

SeeAlsoLists == { << >> } \cup { << n >> : n \in Names }

DictDef(text, see) == [isdict |-> TRUE, text |-> text, see_also |-> see]
StrDef(text) == [isdict |-> FALSE, text |-> text, see_also |-> << >>]

Entry(t, defs) == [term |-> t, data |-> [kind |-> "dict", definitions |-> defs]]
\* a key with no mapping under it: term_data is None
NullEntry(t) == [term |-> t, data |-> [kind |-> "None", definitions |-> << >>]]

KeySet(items) == { items[i].term : i \in 1..Len(items) }

RECURSIVE CorporaOfLen(_)
CorporaOfLen(n) ==
    IF n = 0 THEN { << >> }
    ELSE UNION { { Append(c, Entry(t, << DictDef(t, sa) >>)) :
                     t \in Names \ KeySet(c), sa \in SeeAlsoLists } :
                 c \in CorporaOfLen(n - 1) }

GeneratedCorpora == UNION { CorporaOfLen(n) : n \in 0..MaxTerms }

\* a term with two definitions, one of them not a mapping
MultiDefCorpus ==
    << Entry(<<"A", "B">>, << DictDef(<<"x">>, << <<"C">> >>), StrDef(<<"y">>),
                              DictDef(<<"z">>, << <<"a", "b">> >>) >>) >>

\* more searchable names than process.extract returns
BigCorpus ==
    << Entry(<<"C">>, << DictDef(<<"x">>, << <<"a", "b">>, <<"a", "b">>, <<"a", "b">>,
                                             <<"a", "b">>, <<"a", "b">> >>),
                         DictDef(<<"y">>, << <<"a", "b">>, <<"a", "b">>, <<"a", "b">>,
                                             <<"a", "b">>, <<"a", "b">> >>) >>),
       Entry(<<"A", "B">>, << DictDef(<<"z">>, << >>) >>) >>

\* index building raises at the second term
BrokenCorpus ==
    << Entry(<<"A", "B">>, << DictDef(<<"x">>, << <<"C">> >>) >>),
       NullEntry(<<"C">>) >>

\* more terms than a fallback or a suggestion list keeps
WideCorpus ==
    << Entry(<<"D">>, << DictDef(<<"x">>, << >>) >>),
       Entry(<<"A", "B">>, << DictDef(<<"y">>, << <<"a", "b">> >>) >>),
       Entry(<<"F">>, << >>),
       Entry(<<"E">>, << DictDef(<<"z">>, << >>) >>) >>

Corpora == GeneratedCorpora \cup { MultiDefCorpus, BigCorpus, BrokenCorpus, WideCorpus }

Source(kind, items) == [kind |-> kind, items |-> items]

Sources ==
    { Source("missing", << >>), Source("empty", << >>), Source("unparsable", << >>) }
    \cup { Source("corpus", c) : c \in Corpora }

----------------------------------------------------------------------------
(* GlossaryManager *)

EmptyGlossary == [kind |-> "dict", items |-> << >>]
EmptyMap == [k \in {} |-> << >>]

EmptyStore ==
    [glossary |-> EmptyGlossary, normalized_terms |-> EmptyMap,
     all_searchable_terms |-> << >>]

\* yaml.safe_load: an empty file parses to None, a mapping to a dict
Parsed(source) ==
    IF source.kind = "corpus" THEN [kind |-> "dict", items |-> source.items]
    ELSE [kind |-> "None", items |-> << >>]

RECURSIVE OwnedBy(_, _)
OwnedBy(term, names) ==
    IF names = << >> THEN << >>
    ELSE << [name |-> Head(names), owner |-> term] >> \o OwnedBy(term, Tail(names))

RECURSIVE SeeAlsoPairs(_, _)
SeeAlsoPairs(term, defs) ==
    IF defs = << >> THEN << >>
    ELSE (IF Head(defs).isdict THEN OwnedBy(term, Head(defs).see_also) ELSE << >>)
         \o SeeAlsoPairs(term, Tail(defs))

\* the (name, term) pairs in the order _build_search_indexes registers them
RECURSIVE IndexPairs(_)
IndexPairs(items) ==
    IF items = << >> THEN << >>
    ELSE << [name |-> Head(items).term, owner |-> Head(items).term] >>
         \o SeeAlsoPairs(Head(items).term, Head(items).data.definitions)
         \o IndexPairs(Tail(items))

MapPutKeepFirst(m, name, term) ==
    [k \in DOMAIN m \cup { Lower(name) } |-> IF k \in DOMAIN m THEN m[k] ELSE term]

\* normalized_terms[name.lower()] = term
MapPut(m, name, term) ==
    [k \in DOMAIN m \cup { Lower(name) } |-> IF k = Lower(name) THEN term ELSE m[k]]

RECURSIVE NormalizedOf(_, _)
NormalizedOf(pairs, n) ==
    IF n = 0 THEN EmptyMap
    ELSE MapPut(NormalizedOf(pairs, n - 1), pairs[n].name, pairs[n].owner)

RECURSIVE SearchableOf(_, _)
SearchableOf(pairs, n) ==
    IF n = 0 THEN << >>
    ELSE Append(SearchableOf(pairs, n - 1), pairs[n].name)

\* _build_search_indexes raises: None has no keys(), None has no get()
BuildRaises(g) ==
    \/ g.kind = "None"
    \/ \E i \in 1..Len(g.items) : g.items[i].data.kind = "None"

BuildSearchIndexes(g) ==
    LET pairs == IndexPairs(g.items)
    IN  [glossary |-> g,
         normalized_terms |-> NormalizedOf(pairs, Len(pairs)),
         all_searchable_terms |-> SearchableOf(pairs, Len(pairs))]

\* an except branch that empties the indexes but keeps the table
LoadGlossaryKeepsTable(store, source) ==
    IF source.kind = "missing" THEN store
    ELSE IF source.kind = "unparsable" THEN EmptyStore
    ELSE IF BuildRaises(Parsed(source))
         THEN [EmptyStore EXCEPT !.glossary = [kind |-> "dict", items |-> source.items]]
    ELSE BuildSearchIndexes(Parsed(source))

\* the store load_glossary leaves behind, given the store it found
LoadGlossary(store, source) ==
    IF source.kind = "missing" THEN store
    ELSE IF source.kind = "unparsable" THEN EmptyStore
    ELSE IF BuildRaises(Parsed(source)) THEN EmptyStore
    ELSE BuildSearchIndexes(Parsed(source))

Keys == [i \in 1..Len(glossary.items) |-> glossary.items[i].term]

TermExists(term) == \E i \in 1..Len(glossary.items) : glossary.items[i].term = term

Definition(d) == [text |-> d.text, see_also |-> d.see_also]

RECURSIVE Definitions(_)
Definitions(defs) ==
    IF defs = << >> THEN << >>
    ELSE << Definition(Head(defs)) >> \o Definitions(Tail(defs))

GetTermObject(term) ==
    IF TermExists(term)
    THEN LET e == CHOOSE e \in Range(glossary.items) : e.term = term
         IN  [term |-> term, definitions |-> Definitions(e.data.definitions)]
    ELSE [term |-> term, definitions |-> << >>]

GetOriginalTerm(name) ==
    IF Lower(name) \in DOMAIN normalized_terms
    THEN normalized_terms[Lower(name)]
    ELSE name

CharCode(c) ==
    CASE c = "A" -> 65 [] c = "B" -> 66 [] c = "C" -> 67 [] c = "D" -> 68
      [] c = "E" -> 69 [] c = "F" -> 70 [] c = "G" -> 71
      [] c = "a" -> 97 [] c = "b" -> 98 [] c = "c" -> 99 [] c = "d" -> 100
      [] c = "e" -> 101 [] c = "f" -> 102 [] c = "g" -> 103
      [] OTHER -> 120

RECURSIVE StrLess(_, _)
StrLess(s, t) ==
    IF t = << >> THEN FALSE
    ELSE IF s = << >> THEN TRUE
    ELSE IF CharCode(Head(s)) # CharCode(Head(t))
         THEN CharCode(Head(s)) < CharCode(Head(t))
         ELSE StrLess(Tail(s), Tail(t))

RECURSIVE InsertStr(_, _)
InsertStr(x, s) ==
    IF s = << >> THEN << x >>
    ELSE IF StrLess(x, Head(s)) THEN << x >> \o s
    ELSE << Head(s) >> \o InsertStr(x, Tail(s))

RECURSIVE Sorted(_)
Sorted(s) ==
    IF s = << >> THEN << >>
    ELSE InsertStr(s[Len(s)], Sorted(SubSeq(s, 1, Len(s) - 1)))

StartsWith(s, p) == Len(p) <= Len(s) /\ SubSeq(s, 1, Len(p)) = p

\* prefix << >> stands for None and for "", which `if prefix:` treats alike
ListTerms(prefix) ==
    LET hit(t) == prefix = << >> \/ StartsWith(Lower(t), Lower(prefix))
    IN  Sorted(SelectSeq(Keys, hit))

----------------------------------------------------------------------------
(* The scorer: rapidfuzz's fuzz.WRatio, a function of the two strings.  A   *)
(* search draws one scoring of the searchable names; a name equal to the   *)
(* query scores 100, any other name any level.                             *)

Levels == { 40, 70, 100 }

Thresholds == { SuggestionThreshold, DefaultThreshold, 100 }

Scorers(query) ==
    { sc \in [Range(all_searchable_terms) -> Levels] :
        query \in DOMAIN sc => sc[query] = 100 }

NoScorer == [n \in {} |-> 0]

RECURSIVE InsertByScore(_, _)
InsertByScore(x, s) ==
    IF s = << >> THEN << x >>
    ELSE IF Head(s).score >= x.score THEN << Head(s) >> \o InsertByScore(x, Tail(s))
    ELSE << x >> \o s

\* descending by score, equal scores in the order of the choices
RECURSIVE SortByScore(_)
SortByScore(s) ==
    IF s = << >> THEN << >>
    ELSE InsertByScore(s[Len(s)], SortByScore(SubSeq(s, 1, Len(s) - 1)))

RECURSIVE Scored(_, _, _)
Scored(choices, sc, i) ==
    IF i > Len(choices) THEN << >>
    ELSE << [text |-> choices[i], score |-> sc[choices[i]], index |-> i] >>
         \o Scored(choices, sc, i + 1)

\* process.extract(query, choices, scorer=sc, limit=limit, score_cutoff=cutoff)
Extract(choices, sc, limit, cutoff) ==
    LET above(m) == m.score >= cutoff
    IN  Take(SortByScore(SelectSeq(Scored(choices, sc, 1), above)), limit)

----------------------------------------------------------------------------
(* Results *)

Confidence(score) == [num |-> score, den |-> 100]
Certain == [num |-> 1, den |-> 1]

\* a >= b on quotients with positive denominators
ConfGeq(a, b) == a.num * b.den >= b.num * a.den
ConfEq(a, b) == a.num * b.den = b.num * a.den

TermResult(term, confidence, match_type) ==
    [term |-> term, definitions |-> GetTermObject(term).definitions,
     confidence |-> confidence, match_type |-> match_type]

RECURSIVE Relabel(_, _)
Relabel(results, match_type) ==
    IF results = << >> THEN << >>
    ELSE << [Head(results) EXCEPT !.match_type = match_type] >>
         \o Relabel(Tail(results), match_type)

----------------------------------------------------------------------------
(* FuzzySearch *)

RECURSIVE InsertByConfidence(_, _)
InsertByConfidence(x, s) ==
    IF s = << >> THEN << x >>
    ELSE IF ConfGeq(Head(s).confidence, x.confidence)
         THEN << Head(s) >> \o InsertByConfidence(x, Tail(s))
    ELSE << x >> \o s

RECURSIVE InsertByConfidenceAscending(_, _)
InsertByConfidenceAscending(x, s) ==
    IF s = << >> THEN << x >>
    ELSE IF ConfGeq(x.confidence, Head(s).confidence)
         THEN << Head(s) >> \o InsertByConfidenceAscending(x, Tail(s))
    ELSE << x >> \o s

RECURSIVE SortAscending(_)
SortAscending(results) ==
    IF results = << >> THEN << >>
    ELSE InsertByConfidenceAscending(results[Len(results)],
                                     SortAscending(SubSeq(results, 1, Len(results) - 1)))

\* results.sort(key=lambda x: x.confidence, reverse=True): stable
RECURSIVE SortResults(_)
SortResults(results) ==
    IF results = << >> THEN << >>
    ELSE InsertByConfidence(results[Len(results)],
                            SortResults(SubSeq(results, 1, Len(results) - 1)))

RECURSIVE CollectNoDedup(_, _)
CollectNoDedup(matches, seen_terms) ==
    IF matches = << >> THEN << >>
    ELSE LET original_term == GetOriginalTerm(Head(matches).text)
         IN  (IF TermExists(original_term)
              THEN << TermResult(original_term, Confidence(Head(matches).score), "fuzzy") >>
              ELSE << >>)
             \o CollectNoDedup(Tail(matches), seen_terms \cup { original_term })

\* the loop over the matches
RECURSIVE Collect(_, _)
Collect(matches, seen_terms) ==
    IF matches = << >> THEN << >>
    ELSE LET original_term == GetOriginalTerm(Head(matches).text)
         IN  IF original_term \in seen_terms
             THEN Collect(Tail(matches), seen_terms)
             ELSE (IF TermExists(original_term)
                   THEN << TermResult(original_term,
                                      Confidence(Head(matches).score), "fuzzy") >>
                   ELSE << >>)
                  \o Collect(Tail(matches), seen_terms \cup { original_term })

FuzzySearch(query, threshold, sc) ==
    IF all_searchable_terms = << >> THEN << >>
    ELSE SortResults(Collect(Extract(all_searchable_terms, sc, FuzzyLimit, threshold), {}))

----------------------------------------------------------------------------
(* ExactSearch *)

ExactLookupTop5(term, sc) ==
    IF Lower(term) \in DOMAIN normalized_terms
    THEN << TermResult(normalized_terms[Lower(term)], Certain, "exact") >>
    ELSE Relabel(Take(FuzzySearch(term, SuggestionThreshold, sc), SuggestionCount + 2),
                 "suggestion")

ExactLookup(term, sc) ==
    IF Lower(term) \in DOMAIN normalized_terms
    THEN << TermResult(normalized_terms[Lower(term)], Certain, "exact") >>
    ELSE Relabel(Take(FuzzySearch(term, SuggestionThreshold, sc), SuggestionCount),
                 "suggestion")

----------------------------------------------------------------------------
(* AgenticSearch *)

\* a name the capability can return that no corpus holds
AgentNames == Names \cup { <<"G">> }

RECURSIVE SeqsUpTo(_, _)
SeqsUpTo(S, n) ==
    IF n = 0 THEN { << >> }
    ELSE SeqsUpTo(S, n - 1)
         \cup { Append(s, x) : s \in { t \in SeqsUpTo(S, n - 1) : Len(t) = n - 1 }, x \in S }

Outcome(kind, output) == [kind |-> kind, output |-> output]

\* what `await self.agent.run(...)` and the use of its output can do
AgentFailures == { Outcome(k, << >>) : k \in { "raises", "malformed", "timeout" } }
AgentOutcomes ==
    AgentFailures \cup { Outcome("ok", o) : o \in SeqsUpTo(AgentNames, MaxAgentOut) }
NoOutcome == Outcome("none", << >>)

Reply(raised, invoked, out) == [raised |-> raised, invoked |-> invoked, out |-> out]

AgenticFallbackTop5(query, sc) ==
    Relabel(Take(FuzzySearch(query, FallbackThreshold, sc), FallbackCount + 2),
            "agentic_fallback")

\* fuzzy_search.search(query, threshold=60)[:3], marked agentic_fallback
AgenticFallback(query, sc) ==
    Relabel(Take(FuzzySearch(query, FallbackThreshold, sc), FallbackCount),
            "agentic_fallback")

AgenticPropagates(query, sc) == Reply(TRUE, TRUE, << >>)

\* except Exception as e: fall back to fuzzy search
AgenticOnFailure(query, sc) == Reply(FALSE, TRUE, AgenticFallback(query, sc))

RECURSIVE Responses(_)
Responses(relevant_terms) ==
    IF relevant_terms = << >> THEN << >>
    ELSE (IF TermExists(Head(relevant_terms))
          THEN << TermResult(Head(relevant_terms), Certain, "agentic") >>
          ELSE << >>)
         \o Responses(Tail(relevant_terms))

AgenticSearch(query, outcome, sc) ==
    IF ~agent THEN Reply(FALSE, FALSE, AgenticFallback(query, sc))
    ELSE IF outcome.kind # "ok" THEN AgenticOnFailure(query, sc)
    ELSE Reply(FALSE, TRUE, Responses(outcome.output))

----------------------------------------------------------------------------
(* The service: one call at a time, each returning before the next *)

Response(op, query, threshold, sc, outcome, reply) ==
    [op |-> op, query |-> query, threshold |-> threshold, sc |-> sc,
     outcome |-> outcome, raised |-> reply.raised, invoked |-> reply.invoked,
     out |-> reply.out]

NoRes == Response("none", << >>, 0, NoScorer, NoOutcome, Reply(FALSE, FALSE, << >>))

\* a returned load_glossary call: `query` holds the corpus it read, if any
Loaded(source) ==
    Response("load", source.items, 0, NoScorer, Outcome(source.kind, << >>),
             Reply(FALSE, FALSE, << >>))

Store == [glossary |-> glossary, normalized_terms |-> normalized_terms,
          all_searchable_terms |-> all_searchable_terms]

ConcIdle ==
    /\ lpc = "idle" /\ li = 0
    /\ src = Source("missing", << >>)
    /\ pre = EmptyStore
    /\ rpc = "idle"
    /\ seen = EmptyStore

\* GlossaryManager.__init__, AgenticSearch.__init__
Init ==
    /\ \E source \in Sources :
         LET store == LoadGlossary(EmptyStore, source)
         IN  /\ glossary = store.glossary
             /\ normalized_terms = store.normalized_terms
             /\ all_searchable_terms = store.all_searchable_terms
             /\ res = Loaded(source)
    /\ agent \in BOOLEAN
    /\ ConcIdle

Reload ==
    /\ res = NoRes
    /\ \E source \in Sources :
         LET store == LoadGlossary(Store, source)
         IN  /\ glossary' = store.glossary
             /\ normalized_terms' = store.normalized_terms
             /\ all_searchable_terms' = store.all_searchable_terms
             /\ res' = Loaded(source)
    /\ UNCHANGED << agent, concVars >>

Lookup ==
    /\ res = NoRes
    /\ \E term \in Queries :
         IF Lower(term) \in DOMAIN normalized_terms
         THEN res' = Response("lookup", term, 0, NoScorer, NoOutcome,
                              Reply(FALSE, FALSE, ExactLookup(term, NoScorer)))
         ELSE \E sc \in Scorers(term) :
                res' = Response("lookup", term, 0, sc, NoOutcome,
                                Reply(FALSE, FALSE, ExactLookup(term, sc)))
    /\ UNCHANGED << storeVars, agent, concVars >>

Fuzzy ==
    /\ res = NoRes
    /\ \E query \in Queries, threshold \in Thresholds :
         \E sc \in Scorers(query) :
           res' = Response("fuzzy", query, threshold, sc, NoOutcome,
                           Reply(FALSE, FALSE, FuzzySearch(query, threshold, sc)))
    /\ UNCHANGED << storeVars, agent, concVars >>

Agentic ==
    /\ res = NoRes
    /\ \E query \in Queries :
         IF ~agent
         THEN \E sc \in Scorers(query) :
                res' = Response("agentic", query, 0, sc, NoOutcome,
                                AgenticSearch(query, NoOutcome, sc))
         ELSE \E outcome \in AgentOutcomes :
                IF outcome.kind = "ok"
                THEN res' = Response("agentic", query, 0, NoScorer, outcome,
                                     AgenticSearch(query, outcome, NoScorer))
                ELSE \E sc \in Scorers(query) :
                       res' = Response("agentic", query, 0, sc, outcome,
                                       AgenticSearch(query, outcome, sc))
    /\ UNCHANGED << storeVars, agent, concVars >>

Prefixes == { << >>, <<"a">>, <<"C">> }

List ==
    /\ res = NoRes
    /\ \E prefix \in Prefixes :
         res' = Response("list_terms", prefix, 0, NoScorer, NoOutcome,
                         Reply(FALSE, FALSE, ListTerms(prefix)))
    /\ UNCHANGED << storeVars, agent, concVars >>

\* the handler returns its response to the caller
Return ==
    /\ res # NoRes
    /\ res' = NoRes
    /\ UNCHANGED << storeVars, agent, concVars >>

Next == Reload \/ Lookup \/ Fuzzy \/ Agentic \/ List \/ Return

Spec == Init /\ [][Next]_vars

----------------------------------------------------------------------------
(* load_glossary statement by statement, beside a search that reads the    *)
(* three fields of the store one after the other                           *)

\* the registrations _build_search_indexes makes before it returns or raises
RECURSIVE PairsUntilRaise(_)
PairsUntilRaise(items) ==
    IF items = << >> THEN << >>
    ELSE << [name |-> Head(items).term, owner |-> Head(items).term] >>
         \o (IF Head(items).data.kind = "None" THEN << >>
             ELSE SeeAlsoPairs(Head(items).term, Head(items).data.definitions)
                  \o PairsUntilRaise(Tail(items)))

\* the stores a reloaded service starts from
SmallCorpora == UNION { CorporaOfLen(n) : n \in 0..1 }

InitConc ==
    /\ \E c \in SmallCorpora :
         LET store == LoadGlossary(EmptyStore, Source("corpus", c))
         IN  /\ glossary = store.glossary
             /\ normalized_terms = store.normalized_terms
             /\ all_searchable_terms = store.all_searchable_terms
    /\ agent = FALSE
    /\ res = NoRes
    /\ ConcIdle

loadVars == << lpc, li, src, pre >>
readVars == << rpc, seen >>

\* load_glossary(): Path(self.glossary_path).exists()
L_Call ==
    /\ lpc = "idle"
    /\ \E source \in Sources :
         /\ src' = source
         /\ lpc' = IF source.kind = "missing" THEN "done" ELSE "parse"
    /\ pre' = Store
    /\ UNCHANGED << storeVars, agent, res, li, readVars >>

\* self.glossary = yaml.safe_load(f)
L_Parse ==
    /\ lpc = "parse"
    /\ IF src.kind = "unparsable"
       THEN lpc' = "except" /\ UNCHANGED glossary
       ELSE lpc' = "reset_map" /\ glossary' = Parsed(src)
    /\ UNCHANGED << normalized_terms, all_searchable_terms, agent, res,
                    li, src, pre, readVars >>

\* self.normalized_terms = {}
L_ResetMap ==
    /\ lpc = "reset_map"
    /\ normalized_terms' = EmptyMap
    /\ lpc' = "reset_list"
    /\ UNCHANGED << glossary, all_searchable_terms, agent, res,
                    li, src, pre, readVars >>

\* self.all_searchable_terms = []
L_ResetList ==
    /\ lpc = "reset_list"
    /\ all_searchable_terms' = << >>
    /\ li' = 1
    /\ lpc' = "put"
    /\ UNCHANGED << glossary, normalized_terms, agent, res, src, pre, readVars >>

\* self.normalized_terms[name.lower()] = term
L_Put ==
    /\ lpc = "put"
    /\ li <= Len(PairsUntilRaise(glossary.items))
    /\ normalized_terms' = MapPut(normalized_terms, PairsUntilRaise(glossary.items)[li].name,
                                  PairsUntilRaise(glossary.items)[li].owner)
    /\ lpc' = "append"
    /\ UNCHANGED << glossary, all_searchable_terms, agent, res,
                    li, src, pre, readVars >>

\* self.all_searchable_terms.append(name)
L_Append ==
    /\ lpc = "append"
    /\ all_searchable_terms'
         = Append(all_searchable_terms, PairsUntilRaise(glossary.items)[li].name)
    /\ li' = li + 1
    /\ lpc' = "put"
    /\ UNCHANGED << glossary, normalized_terms, agent, res, src, pre, readVars >>

\* the loop ends and the call returns, or keys() or get() raises
L_Finish ==
    /\ lpc = "put"
    /\ li > Len(PairsUntilRaise(glossary.items))
    /\ lpc' = IF BuildRaises(glossary) THEN "except" ELSE "done"
    /\ UNCHANGED << storeVars, agent, res, li, src, pre, readVars >>

\* except Exception: self.glossary = {}
L_ExceptGlossary ==
    /\ lpc = "except"
    /\ glossary' = EmptyGlossary
    /\ lpc' = "except_map"
    /\ UNCHANGED << normalized_terms, all_searchable_terms, agent, res,
                    li, src, pre, readVars >>

\* self.normalized_terms = {}
L_ExceptMap ==
    /\ lpc = "except_map"
    /\ normalized_terms' = EmptyMap
    /\ lpc' = "except_list"
    /\ UNCHANGED << glossary, all_searchable_terms, agent, res,
                    li, src, pre, readVars >>

\* self.all_searchable_terms = []
L_ExceptList ==
    /\ lpc = "except_list"
    /\ all_searchable_terms' = << >>
    /\ lpc' = "done"
    /\ UNCHANGED << glossary, normalized_terms, agent, res,
                    li, src, pre, readVars >>

\* FuzzySearch.search: process.extract(query, self.glossary.all_searchable_terms, ...)
R_ReadList ==
    /\ rpc = "idle"
    /\ seen' = [seen EXCEPT !.all_searchable_terms = all_searchable_terms]
    /\ rpc' = "read_map"
    /\ UNCHANGED << storeVars, agent, res, loadVars >>

\* get_original_term: self.normalized_terms.get(...)
R_ReadMap ==
    /\ rpc = "read_map"
    /\ seen' = [seen EXCEPT !.normalized_terms = normalized_terms]
    /\ rpc' = "read_glossary"
    /\ UNCHANGED << storeVars, agent, res, loadVars >>

\* term_exists, get_term_object: self.glossary
R_ReadGlossary ==
    /\ rpc = "read_glossary"
    /\ seen' = [seen EXCEPT !.glossary = glossary]
    /\ rpc' = "done"
    /\ UNCHANGED << storeVars, agent, res, loadVars >>

NextConc ==
    \/ L_Call \/ L_Parse \/ L_ResetMap \/ L_ResetList \/ L_Put \/ L_Append \/ L_Finish
    \/ L_ExceptGlossary \/ L_ExceptMap \/ L_ExceptList
    \/ R_ReadList \/ R_ReadMap \/ R_ReadGlossary

SpecConc == InitConc /\ [][NextConc]_vars

\* the statements of load_glossary leave what LoadGlossary computes
StepwiseLoadAgrees == lpc = "done" => Store = LoadGlossary(pre, src)

\* C3: a search interleaved with a reload reads the table, the normalized map
\* and the searchable list either all as they were before the reload or all
\* as they are once it has completed.
C3_ReaderSeesOldOrNew ==
    rpc = "done" =>
      \/ seen = (IF lpc = "idle" THEN Store ELSE pre)
      \/ lpc # "idle" /\ seen = LoadGlossary(pre, src)

----------------------------------------------------------------------------
(* Properties of ExactSearch.lookup *)

\* T's own entry as an exact result
ExactResultOf(T) ==
    LET e == CHOOSE e \in Range(glossary.items) : e.term = T
    IN  [term |-> T, definitions |-> Definitions(e.data.definitions),
         confidence |-> Certain, match_type |-> "exact"]

IsExact(r) == r.match_type = "exact" /\ ConfEq(r.confidence, Certain)

\* C1: after a lookup of a canonical term T in any casing, the response is
\* exactly one result, T's own entry, exact, with confidence 1.0.
C1_LookupReturnsOwnEntry ==
    res.op = "lookup" =>
      \A T \in KeySet(glossary.items) :
        Lower(res.query) = Lower(T) => res.out = << ExactResultOf(T) >>

SeeAlsoNames(T) ==
    LET e == CHOOSE e \in Range(glossary.items) : e.term = T
    IN  UNION { Range(e.data.definitions[d].see_also) :
                  d \in { d \in 1..Len(e.data.definitions) : e.data.definitions[d].isdict } }

\* C2 as stated: after a lookup of a see-also name S of a term T in any
\* casing, the response is T's single exact result.
C2_SeeAlsoResolvesToOwner ==
    res.op = "lookup" =>
      \A T \in KeySet(glossary.items) : \A S \in SeeAlsoNames(T) :
        Lower(res.query) = Lower(S) => res.out = << ExactResultOf(T) >>

\* the term that registered the lowercase form `key` last, in build order
LastOwner(key) ==
    LET pairs == IndexPairs(glossary.items)
        k == CHOOSE k \in 1..Len(pairs) :
               /\ Lower(pairs[k].name) = key
               /\ \A j \in (k + 1)..Len(pairs) : Lower(pairs[j].name) # key
    IN  pairs[k].owner

\* C2 amended: after a lookup of a see-also name S of a term T in any casing,
\* the response is the single exact result, with confidence 1.0, of the term
\* that registered S's lowercase form last in index-build order; it is T's
\* result whenever no other term registers that lowercase form after T.
C2_SeeAlsoResolvesToLastOwner ==
    res.op = "lookup" =>
      \A T \in KeySet(glossary.items) : \A S \in SeeAlsoNames(T) :
        Lower(res.query) = Lower(S) =>
          /\ res.out = << ExactResultOf(LastOwner(Lower(S))) >>
          /\ IsExact(res.out[1])
          /\ (\A U \in KeySet(glossary.items) \ { T } :
                /\ Lower(U) # Lower(S)
                /\ \A X \in SeeAlsoNames(U) : Lower(X) # Lower(S))
             => res.out[1].term = T

\* a see-also name of one term, registered again by a later term, was looked up
C2_Witness ==
    /\ res.op = "lookup"
    /\ \E T \in KeySet(glossary.items) : \E S \in SeeAlsoNames(T) :
         /\ Lower(res.query) = Lower(S)
         /\ Len(res.out) = 1
         /\ res.out[1].term # T
         /\ res.out[1].term = LastOwner(Lower(S))

----------------------------------------------------------------------------
(* Properties of FuzzySearch.search *)

Matches == Extract(all_searchable_terms, res.sc, FuzzyLimit, res.threshold)

\* the position in the scoring pass of the first match that resolves to `term`
FirstMatch(term) ==
    CHOOSE k \in 1..Len(Matches) :
      /\ GetOriginalTerm(Matches[k].text) = term
      /\ \A j \in 1..(k - 1) : GetOriginalTerm(Matches[j].text) # term

\* C8: a fuzzy search at threshold 100 for a canonical term T returns a
\* result whose term is T with confidence 1.0.
C8_FuzzyFindsExactTerm ==
    (res.op = "fuzzy" /\ res.threshold = 100 /\ res.query \in KeySet(glossary.items)) =>
      \E i \in 1..Len(res.out) :
        res.out[i].term = res.query /\ ConfEq(res.out[i].confidence, Certain)

\* C9: a fuzzy search never returns two results with the same canonical term.
C9_FuzzyNoDuplicateTerms ==
    res.op = "fuzzy" =>
      \A i, j \in 1..Len(res.out) : i # j => res.out[i].term # res.out[j].term

\* several matches at or above the threshold resolved to one returned term
C9_Witness ==
    /\ res.op = "fuzzy"
    /\ Len(res.out) >= 2
    /\ \E a, b \in 1..Len(Matches) :
         /\ a # b
         /\ GetOriginalTerm(Matches[a].text) = GetOriginalTerm(Matches[b].text)
         /\ Matches[a].text # Matches[b].text
         /\ \E i \in 1..Len(res.out) : res.out[i].term = GetOriginalTerm(Matches[a].text)

\* C10: fuzzy results are in non-increasing order of confidence, equal
\* confidences in the order of the scoring pass; each is of type "fuzzy" and
\* its confidence is its match's score / 100, between threshold / 100 and 1.
C10_FuzzyOrderedAndScaled ==
    res.op = "fuzzy" =>
      /\ \A i \in 1..Len(res.out) :
           /\ res.out[i].match_type = "fuzzy"
           /\ \E k \in 1..Len(Matches) : GetOriginalTerm(Matches[k].text) = res.out[i].term
           /\ res.out[i].confidence.num * 100
                = Matches[FirstMatch(res.out[i].term)].score * res.out[i].confidence.den
           /\ ConfGeq(res.out[i].confidence, [num |-> res.threshold, den |-> 100])
           /\ ConfGeq(Certain, res.out[i].confidence)
      /\ \A i, j \in 1..Len(res.out) :
           i < j =>
             /\ ConfGeq(res.out[i].confidence, res.out[j].confidence)
             /\ ConfEq(res.out[i].confidence, res.out[j].confidence)
                  => FirstMatch(res.out[i].term) < FirstMatch(res.out[j].term)

\* a fuzzy search returned a tie and a strictly lower confidence
C10_Witness ==
    /\ res.op = "fuzzy"
    /\ Len(res.out) >= 3
    /\ \E i \in 1..(Len(res.out) - 1) :
         ConfEq(res.out[i].confidence, res.out[i + 1].confidence)
    /\ \E i \in 1..(Len(res.out) - 1) :
         ~ConfGeq(res.out[i + 1].confidence, res.out[i].confidence)

----------------------------------------------------------------------------
(* Properties of AgenticSearch.search *)

\* `out` is the first FallbackCount results of the fuzzy search at the
\* fallback threshold, in order, each relabelled agentic_fallback
IsFallbackOf(out, fuzzy) ==
    /\ Len(out) = (IF Len(fuzzy) < 3 THEN Len(fuzzy) ELSE 3)
    /\ \A i \in 1..Len(out) :
         /\ out[i].match_type = "agentic_fallback"
         /\ out[i].term = fuzzy[i].term
         /\ out[i].definitions = fuzzy[i].definitions
         /\ ConfEq(out[i].confidence, fuzzy[i].confidence)

\* C4: with the handle present, whichever way the invocation fails, the
\* search raises nothing and returns the first 3 results of the fuzzy search
\* at threshold 60, each relabelled agentic_fallback.
C4_FailureFallsBack ==
    (res.op = "agentic" /\ agent /\ res.outcome \in AgentFailures) =>
      /\ ~res.raised
      /\ IsFallbackOf(res.out, FuzzySearch(res.query, 60, res.sc))

\* each kind of failure has been answered, one of them with a cut list
C4_Witness ==
    /\ res.op = "agentic" /\ agent
    /\ res.outcome.kind = "timeout"
    /\ Len(res.out) = 3
    /\ Len(FuzzySearch(res.query, 60, res.sc)) > 3

\* C5: when the call succeeds but none of the returned names is a term, the
\* search returns the agentic fallback (the first 3 fuzzy results at
\* threshold 60 tagged agentic_fallback), as after a failed call.
C5_UnresolvedOutputFallsBack ==
    (/\ res.op = "agentic" /\ agent /\ res.outcome.kind = "ok"
     /\ res.outcome.output # << >>
     /\ \A n \in Range(res.outcome.output) : ~TermExists(n)) =>
      \E sc \in Scorers(res.query) :
        IsFallbackOf(res.out, FuzzySearch(res.query, 60, sc))

\* C7: with the handle absent the capability is not invoked and the response
\* is at most 3 results, all agentic_fallback, the leading results of the
\* fuzzy search at threshold 60 on the same store.
C7_AbsentHandleFallsBack ==
    (res.op = "agentic" /\ ~agent) =>
      /\ ~res.invoked
      /\ ~res.raised
      /\ Len(res.out) <= 3
      /\ IsFallbackOf(res.out, FuzzySearch(res.query, 60, res.sc))

\* the fallback cut a longer fuzzy result down to 3
C7_Witness ==
    /\ res.op = "agentic" /\ ~agent
    /\ Len(res.out) = 3
    /\ Len(FuzzySearch(res.query, 60, res.sc)) > 3

----------------------------------------------------------------------------
(* Properties of load_glossary *)

\* C6: once a load whose source is empty or missing has returned, list_terms()
\* is empty and a lookup finds a table to read.
C6_EmptyOrMissingLeavesEmptyStore ==
    (res.op = "load" /\ res.outcome.kind \in { "missing", "empty" }) =>
      /\ ListTerms(<< >>) = << >>
      /\ glossary.kind = "dict"

----------------------------------------------------------------------------
(* Properties of a missed lookup *)

\* C11: a lookup whose lowercase input is no key of the normalized map returns
\* the first 3 (or fewer) results of the fuzzy search at threshold 60, in the
\* same order and with the same confidences, each of type "suggestion"; none
\* of its results is of type "exact".
C11_MissReturnsSuggestions ==
    (res.op = "lookup" /\ Lower(res.query) \notin DOMAIN normalized_terms) =>
      LET fuzzy == FuzzySearch(res.query, 60, res.sc)
      IN  /\ Len(res.out) = (IF Len(fuzzy) < 3 THEN Len(fuzzy) ELSE 3)
          /\ \A i \in 1..Len(res.out) :
               /\ res.out[i].match_type = "suggestion"
               /\ res.out[i].term = fuzzy[i].term
               /\ res.out[i].definitions = fuzzy[i].definitions
               /\ ConfEq(res.out[i].confidence, fuzzy[i].confidence)

\* a missed lookup cut a longer fuzzy result down to 3 suggestions
C11_Witness ==
    /\ res.op = "lookup"
    /\ Lower(res.query) \notin DOMAIN normalized_terms
    /\ Len(res.out) = 3
    /\ Len(FuzzySearch(res.query, 60, res.sc)) > 3
    /\ ~ConfEq(res.out[1].confidence, res.out[3].confidence)

----------------------------------------------------------------------------
(* Properties of the store between calls *)

\* the load that has just returned raised inside its try block
LoadRaised ==
    /\ res.op = "load"
    /\ \/ res.outcome.kind \in { "empty", "unparsable" }
       \/ /\ res.outcome.kind = "corpus"
          /\ \E i \in 1..Len(res.query) : res.query[i].data.kind = "None"

====
